---------------------------- MODULE Spec2Model ----------------------------
(***************************************************************************)
(* The C-ABI adapter examples_simple_create_and_verify_proof of            *)
(* barretenberg/examples/c_bind.cpp, as a state machine.                   *)
(*                                                                         *)
(* One call runs lines 13..17 inside a try block; the handler of lines     *)
(* 19..22 catches const std::exception& and returns e.what().  The four    *)
(* operations of examples::simple and get_crs_factory are external: each   *)
(* either returns or throws, and what it throws is an input of the model.  *)
(* The foreign caller owns the bool slot, calls the adapter repeatedly and *)
(* inspects the returned diagnostic after each call.                       *)
(***************************************************************************)
EXTENDS Naturals, Sequences, FiniteSets

\* Number of calls the foreign caller makes.
MaxCalls == 3

VARIABLES
    pc,          \* position: caller side or a line of the adapter
    valid,       \* the caller's bool slot, *valid
    ptrs,        \* local of line 13: the workflow handle, 0 before it is set
    proof,       \* local of line 14: the proof artifact
    e,           \* the exception in flight or caught
    excAlive,    \* whether the exception object e still exists
    ret,         \* the const char* the call returned
    seen,        \* what the caller found when it inspected the diagnostic
    live,        \* handles created and not yet deleted
    nCreate,     \* handles created so far, all calls
    nProof,      \* proofs created so far, all calls
    nCalls,      \* calls made so far
    trace,       \* external operations invoked in the current call, in order
    raisedAt,    \* the operation that threw in the current call, or "none"
    verifyRet,   \* {} or {b}: what verify_proof returned in the current call
    written,     \* whether *valid was assigned in the current call
    validBefore, \* *valid at entry of the current call
    history      \* one record per finished call

vars == <<pc, valid, ptrs, proof, e, excAlive, ret, seen, live, nCreate,
          nProof, nCalls, trace, raisedAt, verifyRet, written, validBefore,
          history>>

---------------------------------------------------------------------------
(* Values *)

\* Message texts carried by thrown std::runtime_error objects.
Msgs == {"crs not initialized", "proving failed"}

\* What an external operation can throw: an object of a class derived from
\* std::exception that owns its message (std::runtime_error), one whose
\* what() is a string literal (std::bad_alloc), or an object of a type not
\* derived from std::exception.
Kinds == {"runtime_error", "bad_alloc", "non_std"}

Exceptions == [kind : Kinds, msg : Msgs]

NoExc == [kind |-> "none", msg |-> ""]

\* A const char*: where the characters live and what they are.
NullPtr == [owner |-> "null", text |-> ""]

NoRet == [owner |-> "unset", text |-> ""]

NoProof == [handle |-> 0, serial |-> 0]

\* Line 19: the handler's parameter type is const std::exception&, so it
\* matches exactly the thrown objects of a class derived from std::exception.
HandlerMatches(x) == x.kind \in {"runtime_error", "bad_alloc"}

\* Mutant of What: the handler returns nullptr.
WhatNull(x) == NullPtr

\* Line 21: e.what().  For std::runtime_error the characters belong to the
\* exception object; for std::bad_alloc they are a string literal.
What(x) ==
    IF x.kind = "bad_alloc"
    THEN [owner |-> "static", text |-> "std::bad_alloc"]
    ELSE [owner |-> "exception", text |-> x.msg]

\* Mutant of StoredValue: the result is stored negated.
StoredNegated(b) == ~b

\* Line 15: *valid = verify_proof(ptrs, proof) stores the returned value.
StoredValue(b) == b

\* Mutant of NextLine: create_proof is called before the handle is built.
NextLineProveFirst(l) ==
    CASE l = "l13_crs" -> "l14"
      [] l = "l14" -> "l13"
      [] l = "l13" -> "l15"
      [] l = "l15" -> "l16"
      [] l = "l16" -> "l17"

\* Mutant of NextLine: the release of line 16 is left out.
NextLineNoRelease(l) ==
    CASE l = "l13_crs" -> "l13"
      [] l = "l13" -> "l14"
      [] l = "l14" -> "l15"
      [] l = "l15" -> "l17"
      [] l = "l16" -> "l17"

\* Lines 13..17: the statements of the try block run in textual order; on
\* line 13 the argument get_crs_factory() is evaluated before the call.
NextLine(l) ==
    CASE l = "l13_crs" -> "l13"
      [] l = "l13" -> "l14"
      [] l = "l14" -> "l15"
      [] l = "l15" -> "l16"
      [] l = "l16" -> "l17"

Entry(op, h, p) == [op |-> op, h |-> h, p |-> p]

\* What is kept of a call once it has ended.
Finished(diag) ==
    [diag |-> diag, trace |-> trace, raisedAt |-> raisedAt, ptrs |-> ptrs]

---------------------------------------------------------------------------
(* Initial state: the caller has a bool slot and has made no call. *)

Init ==
    /\ pc = "caller"
    /\ valid \in BOOLEAN
    /\ ptrs = 0
    /\ proof = NoProof
    /\ e = NoExc
    /\ excAlive = FALSE
    /\ ret = NoRet
    /\ seen = "nothing"
    /\ live = {}
    /\ nCreate = 0
    /\ nProof = 0
    /\ nCalls = 0
    /\ trace = <<>>
    /\ raisedAt = "none"
    /\ verifyRet = {}
    /\ written = FALSE
    /\ validBefore = valid
    /\ history = <<>>

---------------------------------------------------------------------------
(* The caller *)

\* Lines 9..11: the caller passes the address of its bool slot and the try
\* block is entered; the locals of the call do not exist yet.
examples_simple_create_and_verify_proof ==
    /\ pc = "caller"
    /\ nCalls < MaxCalls
    /\ nCalls' = nCalls + 1
    /\ valid' \in BOOLEAN
    /\ validBefore' = valid'
    /\ pc' = "l13_crs"
    /\ ptrs' = 0
    /\ proof' = NoProof
    /\ e' = NoExc
    /\ excAlive' = FALSE
    /\ ret' = NoRet
    /\ seen' = "nothing"
    /\ trace' = <<>>
    /\ raisedAt' = "none"
    /\ verifyRet' = {}
    /\ written' = FALSE
    /\ UNCHANGED <<live, nCreate, nProof, history>>

\* What the caller can find behind the returned pointer.  Reading through a
\* pointer whose characters belonged to a destroyed object is undefined: the
\* old text, other bytes, or a fault.
Readable ==
    CASE ret.owner = "null" -> {"null"}
      [] ret.owner = "static" -> {ret.text}
      [] ret.owner = "exception" ->
            IF excAlive THEN {ret.text} ELSE {ret.text, "garbage", "crash"}

\* The caller inspects the returned diagnostic before anything else.
inspect ==
    /\ pc = "returned"
    /\ \E s \in Readable :
          /\ seen' = s
          /\ pc' = IF s = "crash" THEN "crashed" ELSE "caller"
    /\ UNCHANGED <<valid, ptrs, proof, e, excAlive, ret, live, nCreate,
                   nProof, nCalls, trace, raisedAt, verifyRet, written,
                   validBefore, history>>

---------------------------------------------------------------------------
(* The try block, lines 11..18 *)

\* An external operation op throws x: control leaves the try block.
Throw(op, x) ==
    /\ pc' = "unwinding"
    /\ e' = x
    /\ excAlive' = TRUE
    /\ raisedAt' = op

\* Line 13, the argument: barretenberg::srs::get_crs_factory().
get_crs_factory ==
    /\ pc = "l13_crs"
    /\ trace' = Append(trace, Entry("get_crs_factory", 0, NoProof))
    /\ \/ /\ pc' = NextLine("l13_crs")
          /\ UNCHANGED <<e, excAlive, raisedAt>>
       \/ \E x \in Exceptions : Throw("get_crs_factory", x)
    /\ UNCHANGED <<valid, ptrs, proof, ret, seen, live, nCreate, nProof,
                   nCalls, verifyRet, written, validBefore, history>>

\* Line 13: auto ptrs = examples::simple::create_builder_and_composer(...).
create_builder_and_composer ==
    /\ pc = "l13"
    /\ trace' = Append(trace, Entry("create_builder_and_composer", 0, NoProof))
    /\ \/ /\ pc' = NextLine("l13")
          /\ nCreate' = nCreate + 1
          /\ ptrs' = nCreate + 1
          /\ live' = live \cup {nCreate + 1}
          /\ UNCHANGED <<e, excAlive, raisedAt>>
       \/ /\ \E x \in Exceptions : Throw("create_builder_and_composer", x)
          /\ UNCHANGED <<nCreate, ptrs, live>>
    /\ UNCHANGED <<valid, proof, ret, seen, nProof, nCalls, verifyRet,
                   written, validBefore, history>>

\* Line 14: auto proof = examples::simple::create_proof(ptrs).
create_proof ==
    /\ pc = "l14"
    /\ trace' = Append(trace, Entry("create_proof", ptrs, NoProof))
    /\ \/ /\ pc' = NextLine("l14")
          /\ nProof' = nProof + 1
          /\ proof' = [handle |-> ptrs, serial |-> nProof + 1]
          /\ UNCHANGED <<e, excAlive, raisedAt>>
       \/ /\ \E x \in Exceptions : Throw("create_proof", x)
          /\ UNCHANGED <<nProof, proof>>
    /\ UNCHANGED <<valid, ptrs, ret, seen, live, nCreate, nCalls, verifyRet,
                   written, validBefore, history>>

\* Mutant of verify_proof: an invalid proof is turned into a failure.
verify_proof_throws_on_invalid ==
    /\ pc = "l15"
    /\ trace' = Append(trace, Entry("verify_proof", ptrs, proof))
    /\ \/ \E b \in BOOLEAN :
             /\ verifyRet' = {b}
             /\ valid' = StoredValue(b)
             /\ written' = TRUE
             /\ IF b
                THEN /\ pc' = NextLine("l15")
                     /\ UNCHANGED <<e, excAlive>>
                ELSE /\ pc' = "unwinding"
                     /\ e' = [kind |-> "runtime_error", msg |-> "proving failed"]
                     /\ excAlive' = TRUE
             /\ UNCHANGED raisedAt
       \/ /\ \E x \in Exceptions : Throw("verify_proof", x)
          /\ UNCHANGED <<verifyRet, valid, written>>
    /\ UNCHANGED <<ptrs, proof, ret, seen, live, nCreate, nProof, nCalls,
                   validBefore, history>>

\* Mutant of verify_proof: the slot is cleared before verify_proof is called.
verify_proof_clears_first ==
    /\ pc = "l15"
    /\ trace' = Append(trace, Entry("verify_proof", ptrs, proof))
    /\ \/ /\ \E b \in BOOLEAN :
                /\ verifyRet' = {b}
                /\ valid' = StoredValue(b)
          /\ written' = TRUE
          /\ pc' = NextLine("l15")
          /\ UNCHANGED <<e, excAlive, raisedAt>>
       \/ /\ \E x \in Exceptions : Throw("verify_proof", x)
          /\ valid' = FALSE
          /\ UNCHANGED <<verifyRet, written>>
    /\ UNCHANGED <<ptrs, proof, ret, seen, live, nCreate, nProof, nCalls,
                   validBefore, history>>

\* Line 15: *valid = examples::simple::verify_proof(ptrs, proof).  The slot
\* is assigned only once verify_proof has returned a value.
verify_proof ==
    /\ pc = "l15"
    /\ trace' = Append(trace, Entry("verify_proof", ptrs, proof))
    /\ \/ /\ \E b \in BOOLEAN :
                /\ verifyRet' = {b}
                /\ valid' = StoredValue(b)
          /\ written' = TRUE
          /\ pc' = NextLine("l15")
          /\ UNCHANGED <<e, excAlive, raisedAt>>
       \/ /\ \E x \in Exceptions : Throw("verify_proof", x)
          /\ UNCHANGED <<verifyRet, valid, written>>
    /\ UNCHANGED <<ptrs, proof, ret, seen, live, nCreate, nProof, nCalls,
                   validBefore, history>>

\* Line 16: examples::simple::delete_builder_and_composer(ptrs).
delete_builder_and_composer ==
    /\ pc = "l16"
    /\ trace' = Append(trace, Entry("delete_builder_and_composer", ptrs, NoProof))
    /\ \/ /\ pc' = NextLine("l16")
          /\ live' = live \ {ptrs}
          /\ UNCHANGED <<e, excAlive, raisedAt>>
       \/ /\ \E x \in Exceptions : Throw("delete_builder_and_composer", x)
          /\ UNCHANGED live
    /\ UNCHANGED <<valid, ptrs, proof, ret, seen, nCreate, nProof, nCalls,
                   verifyRet, written, validBefore, history>>

\* Line 17: return nullptr.
return_nullptr ==
    /\ pc = "l17"
    /\ ret' = NullPtr
    /\ pc' = "returned"
    /\ history' = Append(history, Finished("null"))
    /\ UNCHANGED <<valid, ptrs, proof, e, excAlive, seen, live, nCreate,
                   nProof, nCalls, trace, raisedAt, verifyRet, written,
                   validBefore>>

---------------------------------------------------------------------------
(* The handler, lines 19..22 *)

\* Line 19: catch (const std::exception &e).  A thrown object the handler
\* does not match leaves the function with the exception still in flight.
catch_std_exception ==
    /\ pc = "unwinding"
    /\ IF HandlerMatches(e)
       THEN /\ pc' = "l21"
            /\ UNCHANGED history
       ELSE /\ pc' = "escaped"
            /\ history' = Append(history, Finished("escaped"))
    /\ UNCHANGED <<valid, ptrs, proof, e, excAlive, ret, seen, live, nCreate,
                   nProof, nCalls, trace, raisedAt, verifyRet, written,
                   validBefore>>

\* Mutant of return_what: the handler clears the slot before returning.
return_what_clears_valid ==
    /\ pc = "l21"
    /\ ret' = What(e)
    /\ excAlive' = FALSE
    /\ valid' = FALSE
    /\ written' = TRUE
    /\ pc' = "returned"
    /\ history' = Append(history, Finished("text"))
    /\ UNCHANGED <<ptrs, proof, e, seen, live, nCreate, nProof, nCalls,
                   trace, raisedAt, verifyRet, validBefore>>

\* Line 21: return e.what().  The pointer is taken inside the handler; the
\* exception object is destroyed when the handler is left by the return.
return_what ==
    /\ pc = "l21"
    /\ ret' = What(e)
    /\ excAlive' = FALSE
    /\ pc' = "returned"
    /\ history' = Append(history, Finished("text"))
    /\ UNCHANGED <<valid, ptrs, proof, e, seen, live, nCreate, nProof,
                   nCalls, trace, raisedAt, verifyRet, written, validBefore>>

---------------------------------------------------------------------------

Next ==
    \/ examples_simple_create_and_verify_proof
    \/ get_crs_factory
    \/ create_builder_and_composer
    \/ create_proof
    \/ verify_proof
    \/ delete_builder_and_composer
    \/ return_nullptr
    \/ catch_std_exception
    \/ return_what
    \/ inspect

Spec == Init /\ [][Next]_vars

---------------------------------------------------------------------------
(* Vocabulary of the properties *)

\* The current call has returned to the caller.
Returned == nCalls > 0 /\ pc \in {"returned", "caller", "crashed"}

\* The current call was left by an exception the handler did not match.
Escaped == pc = "escaped"

\* The external operations in the order of lines 13..16.
Order ==
    <<"get_crs_factory", "create_builder_and_composer", "create_proof",
      "verify_proof", "delete_builder_and_composer">>

\* How often operation op was invoked in the sequence t of invocations.
Count(t, op) == Cardinality({i \in DOMAIN t : t[i].op = op})

\* How often delete_builder_and_composer was invoked on handle h in t.
DeleteCount(t, h) ==
    Cardinality({i \in DOMAIN t :
                    t[i].op = "delete_builder_and_composer" /\ t[i].h = h})

\* The text a failure describes itself with.
Description(x) == IF x.kind = "bad_alloc" THEN "std::bad_alloc" ELSE x.msg

\* The characters behind the returned pointer still exist.
PointeeAlive ==
    \/ ret.owner = "static"
    \/ ret.owner = "exception" /\ excAlive

\* A failure was raised before the verification result was stored.
RaisedBeforeStore ==
    raisedAt \in {"get_crs_factory", "create_builder_and_composer",
                  "create_proof", "verify_proof"}

---------------------------------------------------------------------------
(* Properties *)

\* C1: in every call in which create_builder_and_composer returned a handle,
\* delete_builder_and_composer is invoked on that handle exactly once before
\* the call returns, also when create_proof or verify_proof fails.
C1_HandleReleasedExactlyOnce ==
    (Returned /\ ptrs # 0) => DeleteCount(trace, ptrs) = 1

\* C2: when an external step raises a failure, the call returns a non-null
\* diagnostic equal to that failure's description and the failure never
\* leaves the call.
C2_FailureBecomesDiagnostic ==
    (raisedAt # "none" /\ (Returned \/ Escaped)) =>
        /\ ~Escaped
        /\ ret # NullPtr
        /\ ret.text = Description(e)
        /\ PointeeAlive

\* C3: when no external step fails, the call returns a null diagnostic and
\* *valid holds the value verify_proof returned for the proof create_proof
\* produced on the handle built in the same call.
C3_SuccessStoresVerifyResult ==
    (Returned /\ raisedAt = "none") =>
        /\ ret = NullPtr
        /\ verifyRet = {valid}
        /\ ptrs # 0
        /\ proof.serial # 0
        /\ proof.handle = ptrs
        /\ \E i \in DOMAIN trace : trace[i] = Entry("verify_proof", ptrs, proof)

C3_Witness ==
    /\ pc = "returned"
    /\ raisedAt = "none"
    /\ ret = NullPtr
    /\ nCalls = 2
    /\ valid # validBefore

C5_WrittenIffVerifyInvoked ==
    Returned => (written <=> Count(trace, "verify_proof") > 0)

\* C5 as amended: *valid is written in a call if and only if verify_proof
\* returned a value in that call; it is never written when the call fails in
\* setup acquisition, build, prove or inside verify_proof.
C5_WrittenIffVerifyReturned ==
    /\ written <=> verifyRet # {}
    /\ RaisedBeforeStore => ~written
    /\ ~written => valid = validBefore

C5_Witness ==
    /\ pc = "returned"
    /\ raisedAt = "verify_proof"
    /\ Count(trace, "verify_proof") = 1
    /\ ~written

\* C6: a successful call invokes create_builder_and_composer once and
\* delete_builder_and_composer once, on the handle it built, and leaves that
\* handle released; after N successful calls in a row there were N of each
\* and no handle is outstanding.
C6_SuccessfulCallsPairCreateAndDelete ==
    /\ \A i \in DOMAIN history :
          history[i].diag = "null" =>
              /\ Count(history[i].trace, "create_builder_and_composer") = 1
              /\ Count(history[i].trace, "delete_builder_and_composer") = 1
              /\ history[i].ptrs # 0
              /\ DeleteCount(history[i].trace, history[i].ptrs) = 1
              /\ history[i].ptrs \notin live
              /\ \A j \in DOMAIN history :
                    (j # i /\ history[j].diag = "null") =>
                        history[j].ptrs # history[i].ptrs
    /\ (Returned /\ \A i \in DOMAIN history : history[i].diag = "null") =>
          /\ nCreate = Len(history)
          /\ Len(history) = nCalls
          /\ live = {}

C6_Witness ==
    /\ pc = "returned"
    /\ Len(history) = 3
    /\ \A i \in DOMAIN history : history[i].diag = "null"
    /\ nCreate = 3

\* C7: of a call that returned, the diagnostic is null if and only if no
\* step raised a failure, the release step included; a null diagnostic means
\* build, prove, verify and release all completed and *valid holds the
\* verification result.
C7_NullIffSucceeded ==
    Returned =>
        /\ ret # NoRet
        /\ (ret = NullPtr) <=> (raisedAt = "none")
        /\ ret = NullPtr =>
              /\ [i \in DOMAIN trace |-> trace[i].op] = Order
              /\ verifyRet = {valid}
              /\ ptrs # 0
              /\ ptrs \notin live

C7_Witness ==
    /\ pc = "returned"
    /\ raisedAt = "delete_builder_and_composer"
    /\ ret # NullPtr
    /\ verifyRet # {}

\* C8: in a call the external steps are invoked at most once each and in the
\* order acquisition, build, prove, verify, release; prove gets the handle
\* build returned, verify the proof prove returned, release comes after
\* verify returned, and nothing is invoked after a step has raised.
C8_StepsInOrder ==
    /\ Len(trace) <= Len(Order)
    /\ \A i \in DOMAIN trace : trace[i].op = Order[i]
    /\ \A i \in DOMAIN trace :
          /\ trace[i].op = "create_proof" => (trace[i].h # 0 /\ trace[i].h = ptrs)
          /\ trace[i].op = "verify_proof" =>
                /\ trace[i].h = ptrs
                /\ trace[i].p = proof
                /\ proof.serial # 0
                /\ proof.handle = ptrs
          /\ trace[i].op = "delete_builder_and_composer" =>
                (verifyRet # {} /\ trace[i].h = ptrs)
    /\ raisedAt # "none" => (trace # <<>> /\ trace[Len(trace)].op = raisedAt)

C8_Witness ==
    /\ pc = "returned"
    /\ raisedAt = "create_proof"
    /\ Len(trace) = 3
    /\ nCalls = 2
    /\ Len(history[1].trace) = 5

\* C9: when a failure is raised in setup acquisition, build, prove or inside
\* verify_proof, *valid has after the call the value it had before the call.
C9_FailureLeavesValidUnchanged ==
    RaisedBeforeStore => valid = validBefore

C9_Witness ==
    /\ pc = "returned"
    /\ raisedAt = "verify_proof"
    /\ validBefore = TRUE
    /\ valid = TRUE

\* C10: on every failure path the returned diagnostic refers to storage that
\* is still alive when the caller reads it.
C10_DiagnosticOutlivesHandler ==
    (pc = "returned" /\ ret # NullPtr) => PointeeAlive

====
